---------------------------- MODULE Spec2Model ----------------------------
(***************************************************************************)
(* State-machine model of src/src/proxmox_mcp/server.py: the process       *)
(* life cycle of the __main__ block (environment lookup, construction of   *)
(* ProxmoxMCPServer, tool registration in _setup_tools, installation of    *)
(* the signal handlers and the serving loop of start()), and the dispatch  *)
(* of tool invocations to the eleven tool bodies of _setup_tools.          *)
(*                                                                         *)
(* The tool bodies, their parameter declarations, their sync/async kind,   *)
(* the signal handler and the except clauses are translated from the       *)
(* source.  The registry, the parameter validator and the response         *)
(* envelope belong to the MCP runtime, and the delegates (node_tools,      *)
(* vm_tools, ...) to modules that server.py only imports; they are         *)
(* modelled from the contract of spec.md sections 4.1-4.4 and 7.           *)
(***************************************************************************)
EXTENDS Integers, Sequences, FiniteSets

VARIABLES
    pc,          \* position of the process: main, init, setup, sigint, sigterm, run, serving, exited
    env,         \* value of os.getenv("PROXMOX_MCP_CONFIG"): absent, empty or set
    installed,   \* signals whose disposition is signal_handler
    registry,    \* the tool registry of self.mcp, in registration order
    out,         \* lines printed to standard output
    err,         \* lines written to standard error
    log,         \* records written through self.logger
    exitStatus,  \* exit status of the process, NoStatus while it runs
    exitCause,   \* why the process exited
    handled,     \* the signal signal_handler ran for, "none" before
    reqs,        \* invocation requests in arrival order; a request's id is its index
    nDispatched, \* number of requests taken from the transport and dispatched
    inflight,    \* ids of the asynchronous tool bodies suspended at their await
    calls,       \* calls made to the delegates, in order
    returned,    \* results returned by the delegates: records [id, result]
    responses    \* response envelopes handed to the transport, in order

vars == <<pc, env, installed, registry, out, err, log, exitStatus, exitCause, handled,
          reqs, nDispatched, inflight, calls, returned, responses>>

-----------------------------------------------------------------------------
(* Bounds *)

\* Number of invocation requests a run receives.
MaxRequests == 2

-----------------------------------------------------------------------------
(* Values *)

\* The process has not exited.
NoStatus == 0 - 1

Str(s) == [t |-> "str", v |-> s]
Num(s) == [t |-> "int", v |-> s]
Missing == [t |-> "missing", v |-> ""]

ParamNames == {"node", "vmid", "command"}

NoParams == [n \in ParamNames |-> Missing]

Params(node, vmid, command) ==
    [n \in ParamNames |->
        IF n = "node" THEN node ELSE IF n = "vmid" THEN vmid ELSE command]

Text(s) == [type |-> "text", text |-> s]

SeqToSet(s) == {s[i] : i \in 1..Len(s)}

-----------------------------------------------------------------------------
(* The tools of _setup_tools *)

P(name) == [name |-> name, type |-> "str", required |-> TRUE]

Tool(name, desc, async, schema) ==
    [name |-> name, desc |-> desc, async |-> async, schema |-> schema]

\* The descriptor each @self.mcp.tool(...) decoration registers: the function's
\* name, the description constant, whether it is "async def", and its
\* parameters (all annotated str, none with a default).
get_nodes_tool == Tool("get_nodes", "GET_NODES_DESC", FALSE, <<>>)

get_node_status_tool ==
    Tool("get_node_status", "GET_NODE_STATUS_DESC", FALSE, <<P("node")>>)

\* Variant: the third registration reuses the name of the first.
get_vms_tool_named_get_nodes == Tool("get_nodes", "GET_VMS_DESC", FALSE, <<>>)

get_vms_tool == Tool("get_vms", "GET_VMS_DESC", FALSE, <<>>)

get_containers_tool == Tool("get_containers", "GET_CONTAINERS_DESC", FALSE, <<>>)

\* Variant: command declared with a default value, so no longer required.
execute_vm_command_tool_optional_command ==
    Tool("execute_vm_command", "EXECUTE_VM_COMMAND_DESC", TRUE,
         <<P("node"), P("vmid"),
           [name |-> "command", type |-> "str", required |-> FALSE]>>)

execute_vm_command_tool ==
    Tool("execute_vm_command", "EXECUTE_VM_COMMAND_DESC", TRUE,
         <<P("node"), P("vmid"), P("command")>>)

get_storage_tool == Tool("get_storage", "GET_STORAGE_DESC", FALSE, <<>>)

get_cluster_status_tool ==
    Tool("get_cluster_status", "GET_CLUSTER_STATUS_DESC", FALSE, <<>>)

analyze_cluster_health_tool ==
    Tool("analyze_cluster_health", "ANALYZE_CLUSTER_HEALTH_DESC", TRUE, <<>>)

diagnose_vm_issues_tool ==
    Tool("diagnose_vm_issues", "DIAGNOSE_VM_ISSUES_DESC", TRUE,
         <<P("node"), P("vmid")>>)

suggest_resource_optimization_tool ==
    Tool("suggest_resource_optimization", "SUGGEST_RESOURCE_OPTIMIZATION_DESC", TRUE, <<>>)

analyze_security_posture_tool ==
    Tool("analyze_security_posture", "ANALYZE_SECURITY_POSTURE_DESC", TRUE, <<>>)

\* The registrations of _setup_tools, in source order.
ToolDefs ==
    << get_nodes_tool, get_node_status_tool, get_vms_tool, get_containers_tool,
       execute_vm_command_tool, get_storage_tool, get_cluster_status_tool,
       analyze_cluster_health_tool, diagnose_vm_issues_tool,
       suggest_resource_optimization_tool, analyze_security_posture_tool >>

Call(target, args) == [target |-> target, args |-> args]

\* The tool bodies: the delegate each calls and the positional arguments.
get_nodes(a) == Call("node_tools.get_nodes", <<>>)

get_node_status(a) == Call("node_tools.get_node_status", <<a["node"]>>)

get_vms(a) == Call("vm_tools.get_vms", <<>>)

get_containers(a) == Call("container_tools.get_containers", <<>>)

\* Variant: node and vmid forwarded in the wrong positions.
execute_vm_command_swapped(a) ==
    Call("vm_tools.execute_command", <<a["vmid"], a["node"], a["command"]>>)

execute_vm_command(a) ==
    Call("vm_tools.execute_command", <<a["node"], a["vmid"], a["command"]>>)

get_storage(a) == Call("storage_tools.get_storage", <<>>)

get_cluster_status(a) == Call("cluster_tools.get_cluster_status", <<>>)

analyze_cluster_health(a) == Call("ai_diagnostics.analyze_cluster_health", <<>>)

diagnose_vm_issues(a) ==
    Call("ai_diagnostics.diagnose_vm_issues", <<a["node"], a["vmid"]>>)

suggest_resource_optimization(a) ==
    Call("ai_diagnostics.suggest_resource_optimization", <<>>)

analyze_security_posture(a) == Call("ai_diagnostics.analyze_security_posture", <<>>)

\* The function registered under each name.
ToolBody(tool, a) ==
    CASE tool = "get_nodes" -> get_nodes(a)
      [] tool = "get_node_status" -> get_node_status(a)
      [] tool = "get_vms" -> get_vms(a)
      [] tool = "get_containers" -> get_containers(a)
      [] tool = "execute_vm_command" -> execute_vm_command(a)
      [] tool = "get_storage" -> get_storage(a)
      [] tool = "get_cluster_status" -> get_cluster_status(a)
      [] tool = "analyze_cluster_health" -> analyze_cluster_health(a)
      [] tool = "diagnose_vm_issues" -> diagnose_vm_issues(a)
      [] tool = "suggest_resource_optimization" -> suggest_resource_optimization(a)
      [] tool = "analyze_security_posture" -> analyze_security_posture(a)

\* Variant: the body returns the delegate's list in reverse order.
ToolReturn_reversed(result) ==
    [i \in 1..Len(result) |-> result[Len(result) + 1 - i]]

\* What a tool body returns: the delegate's list, as it is.
ToolReturn(result) == result

\* Variant: the body calls the delegate a second time when it raised.
CallsAfterFailure_retry(cs, rec) == Append(cs, rec)

\* The delegate calls on record after a delegate raised: the tool bodies have
\* no except clause and no loop, so the exception leaves the body at once.
CallsAfterFailure(cs, rec) == cs

\* Variant: a tool body that re-describes its own registry entry.
RegistryAfterInvoke_redescribe(reg, tool) ==
    [i \in 1..Len(reg) |->
        IF reg[i].name = tool THEN [reg[i] EXCEPT !.desc = "changed"] ELSE reg[i]]

\* The registry after a tool body ran: no tool body touches self.mcp.
RegistryAfterInvoke(reg, tool) == reg

-----------------------------------------------------------------------------
(* The registry, the validator and the envelope (spec.md 4.1, 4.2, 4.4) *)

Names(reg) == {reg[i].name : i \in 1..Len(reg)}

NotFound == [name |-> "", desc |-> "NotFound", async |-> FALSE, schema |-> <<>>]

lookup(reg, id) ==
    LET hits == {i \in 1..Len(reg) : reg[i].name = id} IN
    IF hits = {} THEN NotFound ELSE reg[CHOOSE i \in hits : TRUE]

register(reg, entry) ==
    IF entry.name \in Names(reg)
    THEN [error |-> TRUE, reg |-> reg]
    ELSE [error |-> FALSE, reg |-> Append(reg, entry)]

MissingFields(schema, params) ==
    {schema[i].name : i \in {j \in 1..Len(schema) :
        schema[j].required /\ params[schema[j].name].t = "missing"}}

IllTypedFields(schema, params) ==
    {schema[i].name : i \in {j \in 1..Len(schema) :
        /\ params[schema[j].name].t # "missing"
        /\ params[schema[j].name].t # schema[j].type}}

Validate(schema, params) ==
    MissingFields(schema, params) = {} /\ IllTypedFields(schema, params) = {}

\* The argument binding: the declared parameters, by name, values unchanged.
Bind(schema, params) ==
    [n \in {schema[i].name : i \in 1..Len(schema)} |-> params[n]]

OkEnvelope(id, blocks) ==
    [id |-> id, isError |-> FALSE, kind |-> "ok", content |-> blocks]

ErrorEnvelope(id, kind) ==
    [id |-> id, isError |-> TRUE, kind |-> kind, content |-> <<Text(kind)>>]

-----------------------------------------------------------------------------
(* Inputs *)

\* Lists of text content blocks a delegate may return (repeats, and an order
\* that is not sorted, included).
Results ==
    { <<Text("a")>>, <<Text("b"), Text("a"), Text("a")>> }

Failure == <<Text("raise")>>

Outcomes == [ok : {TRUE}, result : Results] \cup [ok : {FALSE}, result : {Failure}]

RequestInputs ==
    [tool : {"get_nodes", "get_vms", "get_containers", "get_storage",
             "get_cluster_status", "analyze_cluster_health",
             "suggest_resource_optimization", "analyze_security_posture",
             "no_such_tool"},
     params : {NoParams}]
    \cup
    [tool : {"get_node_status"},
     params : {Params(Str("pve1"), Missing, Missing), NoParams,
               Params(Num("7"), Missing, Missing)}]
    \cup
    [tool : {"execute_vm_command"},
     params : {Params(Str("pve1"), Str("100"), Str("uptime")),
               Params(Str("pve1"), Str("100"), Missing),
               Params(Str("pve1"), Num("100"), Str("uptime"))}]
    \cup
    [tool : {"diagnose_vm_issues"},
     params : {Params(Str("pve1"), Str("100"), Missing),
               Params(Str("pve1"), Missing, Missing),
               Params(Str("pve1"), Num("100"), Missing)}]

-----------------------------------------------------------------------------
(* Exception handling of start() and of the __main__ block *)

\* Variant: a bare except clause, which catches SystemExit as well.
StartCatches_bare(kind) == TRUE

\* "except Exception" of start(): SystemExit and KeyboardInterrupt derive from
\* BaseException only.
StartCatches(kind) == kind = "Exception"

\* "except KeyboardInterrupt" of the __main__ block.
MainCatchesInterrupt(kind) == kind = "KeyboardInterrupt"

\* "except Exception" of the __main__ block.
MainCatchesError(kind) == kind = "Exception"

\* Exit status passed to sys.exit by signal_handler.
SignalExitStatus == 0

Exit(status, cause) ==
    /\ pc' = "exited"
    /\ exitStatus' = status
    /\ exitCause' = cause

\* An exception of class `kind` (a SystemExit carrying `code`) reaches the
\* try statement of the __main__ block.
RaiseInMain(kind, code, cause) ==
    IF MainCatchesInterrupt(kind)
    THEN /\ out' = Append(out, "Shutting down gracefully...")
         /\ Exit(0, cause)
    ELSE IF MainCatchesError(kind)
    THEN /\ out' = Append(out, "Error")
         /\ Exit(1, cause)
    ELSE /\ out' = out
         /\ Exit(code, cause)

\* The same exception raised inside the try statement of start().
RaiseInStart(kind, code, cause, lg) ==
    IF StartCatches(kind)
    THEN /\ log' = Append(lg, "Server error")
         /\ out' = out
         /\ Exit(1, "server_error")
    ELSE /\ log' = lg
         /\ RaiseInMain(kind, code, cause)

-----------------------------------------------------------------------------
(* Actions *)

Init ==
    /\ pc = "main"
    /\ env \in {"absent", "empty", "set"}
    /\ installed = {}
    /\ registry = <<>>
    /\ out = <<>>
    /\ err = <<>>
    /\ log = <<>>
    /\ exitStatus = NoStatus
    /\ exitCause = "none"
    /\ handled = "none"
    /\ reqs = <<>>
    /\ nDispatched = 0
    /\ inflight = {}
    /\ calls = <<>>
    /\ returned = {}
    /\ responses = <<>>

serveVars == <<reqs, nDispatched, inflight, calls, returned, responses>>

\* __main__: config_path = os.getenv(...); if not config_path: print, exit(1).
GetEnv ==
    /\ pc = "main"
    /\ IF env \in {"absent", "empty"}
       THEN /\ out' = Append(out, "PROXMOX_MCP_CONFIG environment variable must be set")
            /\ Exit(1, "no_config")
       ELSE /\ pc' = "init"
            /\ UNCHANGED <<out, exitStatus, exitCause>>
    /\ UNCHANGED <<env, installed, registry, err, log, handled>>
    /\ UNCHANGED serveVars

\* __init__ up to self.mcp = FastMCP(...): configuration, logging, API handle
\* and the tool groups; any of them may raise.
Construct ==
    /\ pc = "init"
    /\ \E ok \in BOOLEAN :
         IF ok
         THEN /\ pc' = "setup"
              /\ UNCHANGED <<out, exitStatus, exitCause>>
         ELSE RaiseInMain("Exception", 1, "init_error")
    /\ UNCHANGED <<env, installed, registry, err, log, handled>>
    /\ UNCHANGED serveVars

\* _setup_tools: one @self.mcp.tool(...) registration, in source order.
RegisterTool ==
    /\ pc = "setup"
    /\ LET r == register(registry, ToolDefs[Len(registry) + 1]) IN
         IF r.error
         THEN /\ registry' = r.reg
              /\ RaiseInMain("Exception", 1, "registration_error")
         ELSE /\ registry' = r.reg
              /\ pc' = IF Len(r.reg) = Len(ToolDefs) THEN "sigint" ELSE "setup"
              /\ UNCHANGED <<out, exitStatus, exitCause>>
    /\ UNCHANGED <<env, installed, err, log, handled>>
    /\ UNCHANGED serveVars

\* start(): signal.signal(signal.SIGINT, signal_handler).
InstallSigint ==
    /\ pc = "sigint"
    /\ installed' = installed \cup {"SIGINT"}
    /\ pc' = "sigterm"
    /\ UNCHANGED <<env, registry, out, err, log, exitStatus, exitCause, handled>>
    /\ UNCHANGED serveVars

\* start(): signal.signal(signal.SIGTERM, signal_handler).
InstallSigterm ==
    /\ pc = "sigterm"
    /\ installed' = installed \cup {"SIGTERM"}
    /\ pc' = "run"
    /\ UNCHANGED <<env, registry, out, err, log, exitStatus, exitCause, handled>>
    /\ UNCHANGED serveVars

\* start(): self.logger.info("Starting MCP server..."); anyio.run(...).
StartServing ==
    /\ pc = "run"
    /\ log' = Append(log, "Starting MCP server...")
    /\ pc' = "serving"
    /\ UNCHANGED <<env, installed, registry, out, err, exitStatus, exitCause, handled>>
    /\ UNCHANGED serveVars

\* anyio.run raises an exception (the transport fails).
ServerError ==
    /\ pc = "serving"
    /\ RaiseInStart("Exception", 1, "server_error", log)
    /\ UNCHANGED <<env, installed, registry, err, handled>>
    /\ UNCHANGED serveVars

\* A signal is delivered.  With signal_handler installed for it the handler
\* logs and calls sys.exit; otherwise the default disposition applies
\* (KeyboardInterrupt for SIGINT, termination for SIGTERM).
Signal(sig) ==
    /\ pc # "exited"
    /\ IF sig \in installed
       THEN /\ IF pc = "serving"
               THEN RaiseInStart("SystemExit", SignalExitStatus, sig,
                                 Append(log, "Received signal to shutdown..."))
               ELSE /\ log' = Append(log, "Received signal to shutdown...")
                    /\ RaiseInMain("SystemExit", SignalExitStatus, sig)
            /\ err' = err
            /\ handled' = sig
       ELSE IF sig = "SIGINT"
       THEN IF pc = "main"
            THEN /\ err' = Append(err, "Traceback: KeyboardInterrupt")
                 /\ Exit(130, "default_sigint")
                 /\ UNCHANGED <<out, log, handled>>
            ELSE /\ RaiseInMain("KeyboardInterrupt", 0, "default_sigint")
                 /\ UNCHANGED <<err, log, handled>>
       ELSE /\ Exit(143, "default_sigterm")
            /\ UNCHANGED <<out, err, log, handled>>
    /\ UNCHANGED <<env, installed, registry>>
    /\ UNCHANGED serveVars

procVars == <<pc, env, installed, out, err, log, exitStatus, exitCause, handled>>

\* An invocation request arrives on the transport.
Arrive(req) ==
    /\ pc = "serving"
    /\ Len(reqs) < MaxRequests
    /\ reqs' = Append(reqs, req)
    /\ UNCHANGED procVars
    /\ UNCHANGED <<registry, nDispatched, inflight, calls, returned, responses>>

\* The id of the request the dispatcher takes next: the oldest not yet taken.
NextToDispatch == nDispatched + 1

\* The dispatcher takes a request: lookup, validation, and the call of the
\* tool body.  A synchronous body runs to its return inside this step; an
\* asynchronous one runs to its await.
Dispatch ==
    /\ pc = "serving"
    /\ nDispatched < Len(reqs)
    /\ LET id == NextToDispatch
           req == reqs[id]
           tool == lookup(registry, req.tool)
       IN
       /\ nDispatched' = nDispatched + 1
       /\ IF tool = NotFound
          THEN /\ responses' = Append(responses, ErrorEnvelope(id, "NotFound"))
               /\ UNCHANGED <<registry, inflight, calls, returned>>
          ELSE IF ~Validate(tool.schema, req.params)
          THEN /\ responses' = Append(responses, ErrorEnvelope(id, "ValidationError"))
               /\ UNCHANGED <<registry, inflight, calls, returned>>
          ELSE LET body == ToolBody(tool.name, Bind(tool.schema, req.params))
                   rec == [id |-> id, tool |-> tool.name, target |-> body.target,
                           args |-> body.args]
               IN
               /\ registry' = RegistryAfterInvoke(registry, tool.name)
               /\ IF tool.async
                  THEN /\ calls' = Append(calls, rec)
                       /\ inflight' = inflight \cup {id}
                       /\ UNCHANGED <<returned, responses>>
                  ELSE \E o \in Outcomes :
                       /\ inflight' = inflight
                       /\ IF o.ok
                          THEN /\ calls' = Append(calls, rec)
                               /\ returned' = returned \cup {[id |-> id, result |-> o.result]}
                               /\ responses' =
                                    Append(responses, OkEnvelope(id, ToolReturn(o.result)))
                          ELSE /\ calls' = CallsAfterFailure(Append(calls, rec), rec)
                               /\ returned' = returned
                               /\ responses' =
                                    Append(responses, ErrorEnvelope(id, "HandlerError"))
    /\ UNCHANGED procVars
    /\ UNCHANGED reqs

\* The remote call an asynchronous tool body awaits returns or raises.
Complete(id) ==
    /\ pc = "serving"
    /\ id \in inflight
    /\ inflight' = inflight \ {id}
    /\ \E o \in Outcomes :
         IF o.ok
         THEN /\ returned' = returned \cup {[id |-> id, result |-> o.result]}
              /\ responses' = Append(responses, OkEnvelope(id, ToolReturn(o.result)))
              /\ calls' = calls
         ELSE /\ returned' = returned
              /\ responses' = Append(responses, ErrorEnvelope(id, "HandlerError"))
              /\ calls' = CallsAfterFailure(calls,
                             CHOOSE c \in SeqToSet(calls) : c.id = id)
    /\ UNCHANGED procVars
    /\ UNCHANGED <<registry, reqs, nDispatched>>

Next ==
    \/ GetEnv
    \/ Construct
    \/ RegisterTool
    \/ InstallSigint
    \/ InstallSigterm
    \/ StartServing
    \/ ServerError
    \/ \E sig \in {"SIGINT", "SIGTERM"} : Signal(sig)
    \/ \E req \in RequestInputs : Arrive(req)
    \/ Dispatch
    \/ \E id \in 1..MaxRequests : Complete(id)

Spec == Init /\ [][Next]_vars

-----------------------------------------------------------------------------
(* Properties *)

Dispatched == 1..nDispatched

ResponsesOf(id) == {i \in 1..Len(responses) : responses[i].id = id}

CallsOf(id) == {i \in 1..Len(calls) : calls[i].id = id}

\* The required parameters the tools declare, in declared order.
Declared(tool) ==
    CASE tool = "get_node_status" -> <<"node">>
      [] tool = "execute_vm_command" -> <<"node", "vmid", "command">>
      [] tool = "diagnose_vm_issues" -> <<"node", "vmid">>
      [] OTHER -> <<>>

RegisteredNames ==
    {"get_nodes", "get_node_status", "get_vms", "get_containers",
     "execute_vm_command", "get_storage", "get_cluster_status",
     "analyze_cluster_health", "diagnose_vm_issues",
     "suggest_resource_optimization", "analyze_security_posture"}

SyncNames ==
    {"get_nodes", "get_node_status", "get_vms", "get_containers", "get_storage",
     "get_cluster_status"}

WellTyped(req) ==
    \A i \in 1..Len(Declared(req.tool)) : req.params[Declared(req.tool)[i]].t = "str"

\* Once signal_handler has run the process has exited and every request the
\* dispatcher accepted has exactly one response (success or error).
C1_Drained ==
    handled # "none" =>
        /\ pc = "exited"
        /\ \A id \in Dispatched : Cardinality(ResponsesOf(id)) = 1

\* C1: a termination signal received while requests are in flight lets every
\* accepted request finish before the process exits, and no request is
\* accepted once the signal has been received.
C1_SignalDrainsInFlight ==
    /\ []C1_Drained
    /\ [][handled # "none" => nDispatched' = nDispatched]_vars

\* C2: for SIGINT and SIGTERM alike, once signal_handler has run the shutdown
\* intent is the last record logged and the process has exited with status 0;
\* the exit is never the status-1 exit of the "Server error" path.
C2_SignalExitsZero ==
    handled # "none" =>
        /\ pc = "exited"
        /\ exitStatus = 0
        /\ log # <<>>
        /\ log[Len(log)] = "Received signal to shutdown..."
        /\ "Server error" \notin SeqToSet(log)

\* C2 witnesses: either signal handled while the server loop runs a request.
C2_Witness ==
    /\ handled = "SIGTERM"
    /\ inflight # {}
    /\ exitStatus = 0

\* C3: a startup failure (configuration variable absent, construction or
\* start raising) exits with status 1 with a diagnostic on standard error;
\* with the variable absent no tool is registered and no request served.
C3_StartupFailureToStderr ==
    exitCause \in {"no_config", "init_error", "server_error"} =>
        /\ exitStatus = 1
        /\ err # <<>>
        /\ exitCause = "no_config" =>
              registry = <<>> /\ nDispatched = 0 /\ responses = <<>>

\* C4: an invocation of get_node_status, execute_vm_command or
\* diagnose_vm_issues with a required parameter missing or not a string gets
\* a ValidationError response and its handler is never called.
C4_InvalidNeverCallsHandler ==
    \A id \in Dispatched :
        (reqs[id].tool \in RegisteredNames /\ ~WellTyped(reqs[id])) =>
            /\ CallsOf(id) = {}
            /\ id \notin inflight
            /\ Cardinality(ResponsesOf(id)) = 1
            /\ \A i \in ResponsesOf(id) : responses[i].kind = "ValidationError"

C4_Witness ==
    \E id \in Dispatched :
        /\ reqs[id].tool = "execute_vm_command"
        /\ reqs[id].params["command"].t = "missing"
        /\ ResponsesOf(id) # {}

\* C5: an invocation of a registered tool with every required parameter
\* present and a string calls that tool's handler exactly once, with the
\* supplied values in declared order and unchanged, and no other handler.
C5_ValidCallsHandlerOnce ==
    \A id \in Dispatched :
        (reqs[id].tool \in RegisteredNames /\ WellTyped(reqs[id])) =>
            /\ Cardinality(CallsOf(id)) = 1
            /\ \A i \in CallsOf(id) :
                  /\ calls[i].tool = reqs[id].tool
                  /\ calls[i].args =
                        [k \in 1..Len(Declared(reqs[id].tool)) |->
                            reqs[id].params[Declared(reqs[id].tool)[k]]]

C5_Witness ==
    \E id \in Dispatched :
        /\ reqs[id].tool = "execute_vm_command"
        /\ WellTyped(reqs[id])
        /\ \E i \in CallsOf(id) :
              calls[i].args = <<Str("pve1"), Str("100"), Str("uptime")>>

\* C6: a handler failure is answered with an error envelope of one text
\* block, the handler having been called once for the request (no retry).
C6_Envelope ==
    \A i \in 1..Len(responses) :
        responses[i].kind = "HandlerError" =>
            /\ responses[i].isError
            /\ Len(responses[i].content) = 1
            /\ responses[i].content[1].type = "text"
            /\ Cardinality(CallsOf(responses[i].id)) = 1

\* C6: a handler failure is converted to a single-text-block error envelope
\* without retry, and the step that answers leaves the process serving.
C6_HandlerFailureContained ==
    /\ []C6_Envelope
    /\ [][Len(responses') > Len(responses) => pc' = "serving"]_vars

C6_Witness ==
    /\ pc = "serving"
    /\ Len(responses) = 2
    /\ responses[1].kind = "HandlerError"
    /\ reqs[responses[1].id].tool = "execute_vm_command"
    /\ responses[2].kind = "ok"

C8_RegistryImmutable ==
    (pc = "serving" \/ nDispatched > 0) =>
        /\ \A i \in 1..Len(ToolDefs) :
              lookup(registry, ToolDefs[i].name) = ToolDefs[i]
        /\ lookup(registry, "no_such_tool") = NotFound
        /\ Len(registry) = Len(ToolDefs)

C8_Witness ==
    /\ Len(responses) = 2
    /\ \E i, j \in 1..2 :
          /\ responses[i].kind = "HandlerError"
          /\ responses[j].kind \in {"ValidationError", "ok"}

\* C9: a successful result of N blocks is answered with exactly those N text
\* blocks in the same order, for synchronous and asynchronous handlers; a
\* request has at most one envelope, complete or an error of one block.
C9_EnvelopeMatchesResult ==
    /\ \A i \in 1..Len(responses) :
          IF responses[i].isError
          THEN Len(responses[i].content) = 1
          ELSE /\ \E r \in returned :
                     r.id = responses[i].id /\ r.result = responses[i].content
               /\ \A k \in 1..Len(responses[i].content) :
                     responses[i].content[k].type = "text"
    /\ \A id \in Dispatched : Cardinality(ResponsesOf(id)) <= 1

C9_Witness ==
    /\ Len(responses) = 2
    /\ \E i, j \in 1..2 :
          /\ responses[i].content = <<Text("b"), Text("a"), Text("a")>>
          /\ reqs[responses[i].id].tool = "get_nodes"
          /\ responses[j].content = <<Text("b"), Text("a"), Text("a")>>
          /\ reqs[responses[j].id].tool = "analyze_cluster_health"

\* C10: requests are dispatched in arrival order; a synchronous handler is
\* never suspended (only asynchronous ones are in flight); and every accepted
\* request receives exactly one response.
C10_EveryRequestAnswered ==
    /\ \A i, j \in 1..Len(calls) : i < j => calls[i].id < calls[j].id
    /\ \A id \in inflight : reqs[id].tool \notin SyncNames
    /\ \A id \in Dispatched : Cardinality(ResponsesOf(id)) <= 1
    /\ (pc = "exited" /\ exitCause # "server_error") =>
          \A id \in Dispatched : Cardinality(ResponsesOf(id)) = 1

=============================================================================
